---- MODULE Spec2Model ----
(***************************************************************************)
(* A model of draw (src/src/main.rs): the stream integration loop that     *)
(* rasterizes decaying colour trails into the pixel grid.                  *)
(*                                                                         *)
(* f64 values are modelled as fixed-point numbers with U units per 1.0,    *)
(* together with the two non-finite kinds the code can produce (infinity   *)
(* from a division by zero, NaN from 0 * infinity).  Every multiplication, *)
(* division, square root and exponential rounds to the nearest unit, as    *)
(* the f64 operations round to the nearest representable value.            *)
(***************************************************************************)
EXTENDS Integers, Sequences, FiniteSets, TLC

\* ------------------------------------------------------------- bounds

\* Units per 1.0 of the fixed-point numbers standing for f64.
U == 64
\* Params.size: the image is size x size pixels.
size == 10
\* Params.velocity_cap, in pixels per step.
velocity_cap == 3
\* Params.num_streams is at most this.
MaxStreams == 2
\* Params.max_decay_factor.
max_decay_factor == 10

\* ------------------------------------------------------------- f64

Fin(v) == [k |-> "num", v |-> v]
Inf(s) == [k |-> "inf", v |-> s]
NaN == [k |-> "nan", v |-> 0]

\* n as f64, for an integer n (i as f64, size as f64, -1.0, 2.0, ...).
FromInt(n) == Fin(n * U)

Sgn(v) == IF v < 0 THEN -1 ELSE 1

AbsInt(v) == IF v < 0 THEN -v ELSE v

Max(a, b) == IF a >= b THEN a ELSE b

\* a / b rounded to the nearest integer, for b > 0.
RoundDiv(a, b) == Sgn(a) * ((2 * AbsInt(a) + b) \div (2 * b))

\* One halving of the binary search for the largest r with r * r <= n,
\* on the interval lh = <<lo, hi>> with lo * lo <= n < hi * hi.
SqrtHalve(n, lh) ==
    LET mid == (lh[1] + lh[2]) \div 2
    IN IF lh[2] - lh[1] <= 1 THEN lh
       ELSE IF mid * mid <= n THEN <<mid, lh[2]>> ELSE <<lh[1], mid>>

SqrtHalve4(n, lh) == SqrtHalve(n, SqrtHalve(n, SqrtHalve(n, SqrtHalve(n, lh))))

\* The square root of n rounded to the nearest integer, for 0 <= n < 2^31:
\* sixteen halvings from <<0, min(n + 1, 46341)>>, then the rounding.
RoundSqrt(n) ==
    LET lh == SqrtHalve4(n, SqrtHalve4(n, SqrtHalve4(n, SqrtHalve4(n,
                  <<0, IF n + 1 < 46341 THEN n + 1 ELSE 46341>>))))
        r == lh[1]
    IN IF n - r * r > r THEN r + 1 ELSE r

FNeg(a) == IF a.k = "nan" THEN NaN ELSE [a EXCEPT !.v = -a.v]

FAbs(a) == IF a.k = "nan" THEN NaN ELSE [a EXCEPT !.v = AbsInt(a.v)]

FAdd(a, b) ==
    CASE a.k = "nan" \/ b.k = "nan" -> NaN
      [] a.k = "inf" /\ b.k = "inf" -> IF a.v = b.v THEN a ELSE NaN
      [] a.k = "inf" -> a
      [] b.k = "inf" -> b
      [] OTHER -> Fin(a.v + b.v)

FMul(a, b) ==
    CASE a.k = "nan" \/ b.k = "nan" -> NaN
      [] a.k = "inf" /\ b.k = "inf" -> Inf(a.v * b.v)
      [] a.k = "inf" -> IF b.v = 0 THEN NaN ELSE Inf(a.v * Sgn(b.v))
      [] b.k = "inf" -> IF a.v = 0 THEN NaN ELSE Inf(b.v * Sgn(a.v))
      [] OTHER -> Fin(RoundDiv(a.v * b.v, U))

FDiv(a, b) ==
    CASE a.k = "nan" \/ b.k = "nan" -> NaN
      [] a.k = "inf" /\ b.k = "inf" -> NaN
      [] a.k = "inf" -> Inf(a.v * Sgn(b.v))
      [] b.k = "inf" -> Fin(0)
      [] b.v = 0 -> IF a.v = 0 THEN NaN ELSE Inf(Sgn(a.v))
      [] OTHER -> Fin(Sgn(b.v) * RoundDiv(a.v * U, AbsInt(b.v)))

\* a < b and a > b of f64: false when either side is NaN.
FLt(a, b) ==
    CASE a.k = "nan" \/ b.k = "nan" -> FALSE
      [] a.k = "inf" -> a.v < 0 /\ ~(b.k = "inf" /\ b.v < 0)
      [] b.k = "inf" -> b.v > 0
      [] OTHER -> a.v < b.v

FGt(a, b) == FLt(b, a)

\* f64::max: the other operand when one is NaN.
FMax(a, b) ==
    CASE a.k = "nan" -> b
      [] b.k = "nan" -> a
      [] OTHER -> IF FLt(a, b) THEN b ELSE a

FSqrt(a) ==
    CASE a.k = "nan" -> NaN
      [] a.k = "inf" -> IF a.v > 0 THEN a ELSE NaN
      [] a.v < 0 -> NaN
      [] OTHER -> Fin(RoundSqrt(a.v * U))

\* 10000 * e^-n for an integer n in 0 .. 7.
ExpNegInt(n) ==
    CASE n = 0 -> 10000 [] n = 1 -> 3679 [] n = 2 -> 1353 [] n = 3 -> 498
      [] n = 4 -> 183 [] n = 5 -> 67 [] n = 6 -> 25 [] OTHER -> 9

\* 10000 * e^-f for f = fk / 10000 in [0, 1): the series
\* 1 - f + f^2/2! - ... + f^6/6! in Horner form.
ExpNegFrac(fk) ==
    LET h6 == 10000 - RoundDiv(fk * 10000, 6 * 10000)
        h5 == 10000 - RoundDiv(fk * h6, 5 * 10000)
        h4 == 10000 - RoundDiv(fk * h5, 4 * 10000)
        h3 == 10000 - RoundDiv(fk * h4, 3 * 10000)
        h2 == 10000 - RoundDiv(fk * h3, 2 * 10000)
    IN 10000 - RoundDiv(fk * h2, 10000)

\* 10000 * e^-t for t = tv / U, 0 <= t < 8: e^-t = e^-n * e^-f with n the
\* integer part of t and f its fraction.
ExpNeg(tv) ==
    RoundDiv(ExpNegInt(tv \div U) * ExpNegFrac(RoundDiv((tv % U) * 10000, U)), 10000)

\* f64::exp.  e^-t underflows to 0 at this resolution for t >= 8; the code
\* only takes exponentials of numbers <= 0, of -infinity and of NaN.
FExp(a) ==
    CASE a.k = "nan" -> NaN
      [] a.k = "inf" -> IF a.v > 0 THEN a ELSE Fin(0)
      [] a.v <= -8 * U -> Fin(0)
      [] a.v <= 0 -> Fin(RoundDiv(U * ExpNeg(-a.v), 10000))
      [] OTHER -> Fin(RoundDiv(U * 10000, ExpNeg(a.v)))

\* f64 as usize / as u64: truncates toward zero, NaN and negatives give 0,
\* +infinity saturates (here at the largest integer of the model).
FToInt(a) ==
    CASE a.k = "nan" -> 0
      [] a.k = "inf" -> IF a.v > 0 THEN 2147483647 ELSE 0
      [] a.v < 0 -> 0
      [] OTHER -> a.v \div U

\* ------------------------------------------------------------- types

ColorOffset(r, g, b) == [r |-> r, g |-> g, b |-> b]

\* ColorOffset::default()
ZeroColor == ColorOffset(Fin(0), Fin(0), Fin(0))

\* ColorOffset::scale
ColorScale(c, ratio) ==
    ColorOffset(FMul(c.r, ratio), FMul(c.g, ratio), FMul(c.b, ratio))

\* A plausible slip of ColorOffset::add: the cell is overwritten.
ColorAddOverwrite(c, other) == other

\* ColorOffset::add
ColorAdd(c, other) ==
    ColorOffset(FAdd(c.r, other.r), FAdd(c.g, other.g), FAdd(c.b, other.b))

Position(x, y) == [x |-> x, y |-> y]

\* Position::add
PosAdd(p, other) == Position(FAdd(p.x, other.x), FAdd(p.y, other.y))

\* Position::scale
PosScale(p, ratio) == Position(FMul(p.x, ratio), FMul(p.y, ratio))

\* Option<usize>: None is the empty set, Some(n) is {n}.
None == {}

Some(n) == {n}

\* A plausible slip of to_pixel: the lower test is f >= 0.0.
ToPixelClosed(f) ==
    IF ~FLt(f, Fin(0)) /\ f.k # "nan" /\ FLt(f, FromInt(size))
    THEN Some(FToInt(f)) ELSE None

\* The closure to_pixel of Position::to_pixels.
ToPixel(f) ==
    IF FGt(f, Fin(0)) /\ FLt(f, FromInt(size)) THEN Some(FToInt(f)) ELSE None

\* Position::to_pixels
ToPixels(p) == <<ToPixel(p.x), ToPixel(p.y)>>

\* Position::length
Length(p) == FSqrt(FAdd(FMul(p.x, p.x), FMul(p.y, p.y)))

\* ------------------------------------------------------------- forces

\* Force::apply
Apply(force, target) ==
    LET offset == PosAdd(target, PosScale(force.position, FromInt(-1)))
        distance == Length(offset)
        num_devs == FDiv(distance, force.spread)
        push == FMul(FDiv(force.strength, force.spread),
                     FExp(FDiv(FNeg(FMul(num_devs, num_devs)), FromInt(2))))
        dir == CASE force.kind = "Inward" ->
                      PosScale(offset, FDiv(FromInt(-1), distance))
                 [] force.kind = "Outward" ->
                      PosScale(offset, FDiv(FromInt(1), distance))
                 [] force.kind = "Linear" -> force.dir
    IN PosScale(dir, push)

\* The loop over forces of draw: the velocity after every force of fs, in
\* order, each applied at the (already updated) position.  The force
\* fields of the model hold at most two forces.
ApplyForces(fs, position, velocity) ==
    LET v1 == IF Len(fs) >= 1 THEN PosAdd(velocity, Apply(fs[1], position)) ELSE velocity
    IN IF Len(fs) >= 2 THEN PosAdd(v1, Apply(fs[2], position)) ELSE v1

\* A plausible slip of the cap: the velocity is always rescaled to the cap.
CapVelocityAlways(velocity) ==
    PosScale(velocity, FDiv(FromInt(velocity_cap), Length(velocity)))

\* The velocity cap of draw.
CapVelocity(velocity) ==
    IF FGt(Length(velocity), FromInt(velocity_cap))
    THEN PosScale(velocity, FDiv(FromInt(velocity_cap), Length(velocity)))
    ELSE velocity

\* ------------------------------------------------------------- state

VARIABLES
    forces,             \* the Vec<Force> of draw, read-only
    streams,            \* the Vec<Stream> of draw, as sampled
    stream,             \* stream[s]: the loop's mutable copy of streams[s]
    grid,               \* grid[<<x, y>>]: the accumulated ColorOffset
    age,                \* age[s]
    pc,                 \* pc[s]: "while", "for" or "done"
    old_age,            \* old_age[s]
    base_offset,        \* base_offset[s]
    num_pixels,         \* num_pixels[s]
    i,                  \* i[s]: the next sub-step of the rasterization loop
    current_position,   \* current_position[s] of the last sub-step
    pixel,              \* pixel[s]: to_pixels of the last sub-step
    landed,             \* history: the cells some sub-step has addressed
    order               \* "sequential" (the for loop of draw) or "interleaved"

vars == <<forces, streams, stream, grid, age, pc, old_age, base_offset,
          num_pixels, i, current_position, pixel, landed, order>>

Cells == (0 .. size - 1) \X (0 .. size - 1)

\* half-pixel coordinates: Half(n) is n / 2 as f64.
Half(n) == Fin((n * U) \div 2)

\* ------------------------------------------------------------- inputs

Colors ==
    { ColorOffset(FromInt(4), FromInt(-2), Half(1)),
      ColorOffset(FromInt(-1), Fin(0), FromInt(3)) }

\* Stream positions are normally distributed around the faucets: inside the
\* image, on its edges, and near the outer bounds -size and 2 * size.
StartPositions ==
    { Position(FromInt(5), FromInt(5)),
      Position(FromInt(-1), FromInt(5)),
      Position(FromInt(size - 2), Half(3)),
      Position(Half(4 * size - 1), FromInt(5)),
      Position(Half(4 * size + 1), FromInt(5)),
      Position(FromInt(5), Half(1 - 2 * size)) }

\* Stream velocities are normally distributed and not capped when sampled.
StartVelocities ==
    { Position(Fin(0), Fin(0)),
      Position(FromInt(1), Fin(0)),
      Position(Half(1), Half(-1)),
      Position(FromInt(2), FromInt(1)),
      Position(FromInt(velocity_cap), FromInt(velocity_cap + 1)),
      Position(Fin(0), FromInt(-1)),
      Position(FromInt(-velocity_cap), Fin(0)) }

\* Decay rates are exponentially distributed: any positive number.
DecayRates == { FromInt(2), Half(5), FromInt(3), FromInt(10), FromInt(12) }

StreamChoices ==
    { [color |-> c, decay_rate |-> d, position |-> p, velocity |-> v] :
        c \in Colors, d \in DecayRates, p \in StartPositions, v \in StartVelocities }

\* The streams that follow the first one.
LaterChoices ==
    { [color |-> ColorOffset(FromInt(2), FromInt(2), FromInt(-2)),
       decay_rate |-> FromInt(2),
       position |-> Position(FromInt(5), FromInt(5)),
       velocity |-> Position(FromInt(1), Fin(0))],
      [color |-> ColorOffset(FromInt(1), Fin(0), Fin(0)),
       decay_rate |-> Half(5),
       position |-> Position(FromInt(4), FromInt(4)),
       velocity |-> Position(FromInt(2), FromInt(1))] }

LinearForce ==
    [kind |-> "Linear", dir |-> Position(FromInt(1), Fin(0)),
     strength |-> FromInt(8), spread |-> FromInt(4),
     position |-> Position(FromInt(5), FromInt(5))]

InwardForce ==
    [kind |-> "Inward", dir |-> Position(Fin(0), Fin(0)),
     strength |-> FromInt(4), spread |-> FromInt(2),
     position |-> Position(FromInt(6), FromInt(5))]

OutwardForce ==
    [kind |-> "Outward", dir |-> Position(Fin(0), Fin(0)),
     strength |-> FromInt(6), spread |-> FromInt(3),
     position |-> Position(FromInt(4), FromInt(6))]

ForceFields ==
    { << >>, <<LinearForce>>, <<InwardForce>>, <<LinearForce, OutwardForce>> }

RECURSIVE SeqsUpTo(_, _)
\* The sequences over S of length at most n.
SeqsUpTo(S, n) ==
    IF n = 0 THEN { << >> }
    ELSE LET shorter == SeqsUpTo(S, n - 1)
         IN shorter \cup { Append(q, x) : q \in shorter, x \in S }

StreamVectors ==
    { <<first>> \o rest : first \in StreamChoices,
                          rest \in SeqsUpTo(LaterChoices, MaxStreams - 1) }

\* The state of draw when the stream loop starts (line 264).
InitWith(fields, vectors, schedule) ==
    /\ order = schedule
    /\ forces \in fields
    /\ streams \in vectors
    /\ stream = streams
    /\ grid = [c \in Cells |-> ZeroColor]
    /\ age = [s \in DOMAIN streams |-> 0]
    /\ pc = [s \in DOMAIN streams |-> "while"]
    /\ old_age = [s \in DOMAIN streams |-> 0]
    /\ base_offset = [s \in DOMAIN streams |-> Position(Fin(0), Fin(0))]
    /\ num_pixels = [s \in DOMAIN streams |-> 0]
    /\ i = [s \in DOMAIN streams |-> 1]
    /\ current_position = [s \in DOMAIN streams |-> streams[s].position]
    /\ pixel = [s \in DOMAIN streams |-> <<None, None>>]
    /\ landed = {}

Init == InitWith(ForceFields, StreamVectors, "sequential")

\* ------------------------------------------------------------- draw

\* let max_age = (params.max_decay_factor / stream.decay_rate) as u64
MaxAge(st) == FToInt(FDiv(FromInt(max_decay_factor), st.decay_rate))

\* A plausible slip of the age test: age <= max_age.
AgeBelowOrAt(a, m) == a <= m

\* age < max_age
AgeBelow(a, m) == a < m

\* The condition of the while loop.
WhileCond(st, a) ==
    /\ AgeBelow(a, MaxAge(st))
    /\ ~FLt(st.position.x, FNeg(FromInt(size)))
    /\ ~FGt(st.position.x, FMul(FromInt(2), FromInt(size)))
    /\ ~FLt(st.position.y, FNeg(FromInt(size)))
    /\ ~FGt(st.position.y, FMul(FromInt(2), FromInt(size)))

\* let norm = stream.velocity.x.abs().max(stream.velocity.y.abs())
Norm(velocity) == FMax(FAbs(velocity.x), FAbs(velocity.y))

\* let base_offset = stream.velocity.scale(1.0 / norm as f64)
BaseOffset(velocity) == PosScale(velocity, FDiv(FromInt(1), Norm(velocity)))

\* let num_pixels = norm as usize
NumPixels(velocity) == FToInt(Norm(velocity))

\* The sub-step position: stream.position.add(base_offset.scale(i as f64))
SubStepPosition(position, offset, n) == PosAdd(position, PosScale(offset, FromInt(n)))

\* The colour a sub-step adds: stream.color.scale((-decay_rate * age).exp())
Contribution(st, a) ==
    ColorScale(st.color, FExp(FMul(FNeg(st.decay_rate), FromInt(a))))

\* The grid after a sub-step at position p of stream st at age a.
Paint(g, st, a, p) ==
    LET px == ToPixels(p)
    IN IF px[1] # None /\ px[2] # None
       THEN LET c == <<CHOOSE x \in px[1] : TRUE, CHOOSE y \in px[2] : TRUE>>
            IN [g EXCEPT ![c] = ColorAdd(g[c], Contribution(st, a))]
       ELSE g

\* A plausible slip of the minimum age update: it is left out.
NoMinAge(a, old) == a

\* if age == old_age { age += 1 }
MinAge(a, old) == IF a = old THEN a + 1 ELSE a

\* stream.position = stream.position.add(stream.velocity)
Advance(st) == PosAdd(st.position, st.velocity)

\* The stream after the position update, the forces and the cap.
Updated(st, fs) ==
    LET p == Advance(st)
    IN [st EXCEPT !.position = p,
                  !.velocity = CapVelocity(ApplyForces(fs, p, st.velocity))]

\* for mut stream in streams: a stream runs when the ones before it are done.
\* Under the interleaved order any stream that is not done may run.
InTurn(s) ==
    order = "sequential" => \A t \in DOMAIN streams : t < s => pc[t] = "done"

\* The while condition holds: the body starts (lines 273-277).
Enter(s) ==
    /\ InTurn(s)
    /\ pc[s] = "while"
    /\ WhileCond(stream[s], age[s])
    /\ old_age' = [old_age EXCEPT ![s] = age[s]]
    /\ base_offset' = [base_offset EXCEPT ![s] = BaseOffset(stream[s].velocity)]
    /\ num_pixels' = [num_pixels EXCEPT ![s] = NumPixels(stream[s].velocity)]
    /\ i' = [i EXCEPT ![s] = 1]
    /\ pc' = [pc EXCEPT ![s] = "for"]
    /\ UNCHANGED <<order, forces, streams, stream, grid, age, current_position, pixel, landed>>

\* The while condition fails: the stream is dropped.
Exit(s) ==
    /\ InTurn(s)
    /\ pc[s] = "while"
    /\ ~WhileCond(stream[s], age[s])
    /\ pc' = [pc EXCEPT ![s] = "done"]
    /\ UNCHANGED <<order, forces, streams, stream, grid, age, old_age, base_offset,
                   num_pixels, i, current_position, pixel, landed>>

\* One iteration of for i in 1..=num_pixels (lines 278-287).
SubStep(s) ==
    /\ InTurn(s)
    /\ pc[s] = "for"
    /\ i[s] <= num_pixels[s]
    /\ LET p == SubStepPosition(stream[s].position, base_offset[s], i[s])
           px == ToPixels(p)
       IN /\ current_position' = [current_position EXCEPT ![s] = p]
          /\ pixel' = [pixel EXCEPT ![s] = px]
          /\ grid' = Paint(grid, stream[s], age[s], p)
          /\ landed' = IF px[1] # None /\ px[2] # None
                       THEN landed \cup (px[1] \X px[2]) ELSE landed
    /\ age' = [age EXCEPT ![s] = age[s] + 1]
    /\ i' = [i EXCEPT ![s] = i[s] + 1]
    /\ UNCHANGED <<order, forces, streams, stream, pc, old_age, base_offset, num_pixels>>

\* The rest of the body, after the for loop (lines 288-304).
Update(s) ==
    /\ InTurn(s)
    /\ pc[s] = "for"
    /\ i[s] > num_pixels[s]
    /\ stream' = [stream EXCEPT ![s] = Updated(stream[s], forces)]
    /\ age' = [age EXCEPT ![s] = MinAge(age[s], old_age[s])]
    /\ pc' = [pc EXCEPT ![s] = "while"]
    /\ UNCHANGED <<order, forces, streams, grid, old_age, base_offset, num_pixels, i,
                   current_position, pixel, landed>>

Next ==
    \/ \E s \in DOMAIN streams : Enter(s)
    \/ \E s \in DOMAIN streams : Exit(s)
    \/ \E s \in DOMAIN streams : SubStep(s)
    \/ \E s \in DOMAIN streams : Update(s)

Spec == Init /\ [][Next]_vars

AllDone == \A s \in DOMAIN streams : pc[s] = "done"

\* ------------------------------------------------------------- claims

Streams == DOMAIN streams

\* v is a finite number.
IsNum(a) == a.k = "num"

\* ceil(max_decay_factor / decay_rate), exactly.
CeilRatio(st) == (max_decay_factor * U * U + st.decay_rate.v * U - 1) \div (st.decay_rate.v * U)

\* C1: the while loop of every stream terminates.  The body is entered only
\* while age < max_age; inside the body the for loop counts i up to
\* num_pixels, one age increment per sub-step; the iteration ends with
\* age = old_age + max(1, num_pixels) >= old_age + 1, so the age at which the
\* body is entered grows strictly from one iteration to the next; a stream
\* with age >= max_age leaves the loop, and a stream that has left it is
\* never stepped again.
C1_Terminates ==
    /\ [][\A s \in Streams :
            LET m == FToInt(FDiv(FromInt(max_decay_factor), streams[s].decay_rate))
            IN /\ (pc[s] = "while" /\ pc'[s] = "for") =>
                      age[s] < m /\ old_age'[s] = age[s] /\ i'[s] = 1
               /\ (pc[s] = "while" /\ age[s] >= m) => pc'[s] \in {"while", "done"}
               /\ (pc[s] = "for" /\ pc'[s] = "for" /\ i'[s] # i[s]) =>
                      /\ i[s] <= num_pixels[s]
                      /\ i'[s] = i[s] + 1
                      /\ age'[s] = age[s] + 1
                      /\ num_pixels'[s] = num_pixels[s]
                      /\ old_age'[s] = old_age[s]
               /\ (pc[s] = "for" /\ pc'[s] = "while") =>
                      /\ age'[s] = old_age[s] + Max(1, num_pixels[s])
                      /\ age'[s] >= old_age[s] + 1
               /\ pc[s] = "done" =>
                      pc'[s] = "done" /\ stream'[s] = stream[s] /\ age'[s] = age[s]]_vars
    /\ [](\A s \in Streams :
            pc[s] = "for" =>
                i[s] <= num_pixels[s] + 1 /\ age[s] = old_age[s] + i[s] - 1)

\* A stream that never moved a whole pixel has aged out, one forced
\* increment per step.
C1_Witness ==
    \E s \in Streams :
        /\ pc[s] = "done"
        /\ num_pixels[s] = 0
        /\ age[s] > 0
        /\ age[s] >= MaxAge(stream[s])

\* C2 as stated: the age never exceeds ceil(max_decay_factor / decay_rate) + 1.
C2_Original == \A s \in Streams : age[s] <= CeilRatio(streams[s]) + 1

\* C2 amended: a step starts with age < max_age and adds max(1, num_pixels)
\* to it, so the age never exceeds max_age - 1 + max(1, num_pixels) of the
\* step in progress (or last made); it stays 0 when max_age is 0.
C2_AgeBound ==
    \A s \in Streams :
        LET m == FToInt(FDiv(FromInt(max_decay_factor), streams[s].decay_rate))
        IN /\ pc[s] = "for" => old_age[s] < m /\ age[s] <= old_age[s] + num_pixels[s]
           /\ age[s] <= IF m = 0 THEN 0 ELSE m - 1 + Max(1, num_pixels[s])

\* A stream is about to paint a cell of the grid with an age above the
\* stated bound.
C2_Witness ==
    \E s \in Streams :
        /\ pc[s] = "for"
        /\ i[s] <= num_pixels[s]
        /\ age[s] > CeilRatio(streams[s]) + 1
        /\ ToPixels(SubStepPosition(stream[s].position, base_offset[s], i[s]))[1] # None
        /\ ToPixels(SubStepPosition(stream[s].position, base_offset[s], i[s]))[2] # None

\* The position lies within the outer bounds [-size, 2 * size] on both axes.
InBounds(p) ==
    /\ IsNum(p.x) /\ -size * U <= p.x.v /\ p.x.v <= 2 * size * U
    /\ IsNum(p.y) /\ -size * U <= p.y.v /\ p.y.v <= 2 * size * U

\* |v|^2, the cross product and the dot product of finite vectors, in units^2.
NormSq(v) == v.x.v * v.x.v + v.y.v * v.y.v

Cross(a, b) == a.x.v * b.y.v - a.y.v * b.x.v

Dot(a, b) == a.x.v * b.x.v + a.y.v * b.y.v

\* The rounding a rescaled vector carries: that of the factor cap / length,
\* one part in 2 * U of each component, and that of the product.
Rounding(v) == (AbsInt(v.x.v) + AbsInt(v.y.v)) \div U + 2

\* v has magnitude velocity_cap, up to rounding, and is finite.
AtCap(v, before) ==
    /\ IsNum(v.x) /\ IsNum(v.y)
    /\ NormSq(v) <= (velocity_cap * U + Rounding(before)) * (velocity_cap * U + Rounding(before))
    /\ NormSq(v) >= (velocity_cap * U - Rounding(before)) * (velocity_cap * U - Rounding(before))

\* v points the way w does, up to rounding.
SameDirection(v, w) ==
    /\ AbsInt(Cross(v, w)) <= AbsInt(w.x.v) + AbsInt(w.y.v)
    /\ Dot(v, w) > 0

\* C3, with the rounding of f64 granted: after a completed step the velocity
\* is a number of magnitude at most velocity_cap; a velocity that exceeded the
\* cap after the forces were added has been rescaled to the cap, its
\* direction kept, and any other velocity is the one the forces left.
C3_Claim ==
    [][\A s \in Streams :
        (pc[s] = "for" /\ pc'[s] = "while") =>
            LET before == ApplyForces(forces, stream'[s].position, stream[s].velocity)
                v == stream'[s].velocity
            IN /\ IsNum(v.x) /\ IsNum(v.y)
               /\ NormSq(v) <= (velocity_cap * U + Rounding(v)) * (velocity_cap * U + Rounding(v))
               /\ IF FGt(Length(before), FromInt(velocity_cap))
                  THEN AtCap(v, before) /\ SameDirection(v, before)
                  ELSE v = before]_vars

\* C4's scenario: no forces, one stream, at (5, 5) with zero velocity.
C4_Scenario ==
    /\ forces = << >>
    /\ Len(streams) = 1
    /\ streams[1].position = Position(FromInt(5), FromInt(5))
    /\ streams[1].velocity = Position(Fin(0), Fin(0))
    /\ streams[1].color # ZeroColor

\* C4 as stated: at termination cell (5, 5) holds a non-zero sum and every
\* other cell is zero.
C4_Original ==
    (C4_Scenario /\ pc[1] = "done") =>
        /\ stream[1].position = Position(FromInt(5), FromInt(5))
        /\ grid[<<5, 5>>] # ZeroColor
        /\ \A c \in Cells \ {<<5, 5>>} : grid[c] = ZeroColor

\* C4 amended: the stream stays at (5, 5) with zero velocity for its whole
\* life; every step has num_pixels = 0 and a NaN base_offset, so no sub-step
\* is made, no cell is addressed and every cell, (5, 5) included, stays zero.
C4_NothingPainted ==
    C4_Scenario =>
        /\ stream[1].position = Position(FromInt(5), FromInt(5))
        /\ stream[1].velocity = Position(Fin(0), Fin(0))
        /\ num_pixels[1] = 0
        /\ pc[1] = "for" => base_offset[1] = Position(NaN, NaN)
        /\ landed = {}
        /\ \A c \in Cells : grid[c] = ZeroColor

\* The stationary stream has aged out.
C4_Witness == C4_Scenario /\ pc[1] = "done" /\ age[1] > 0

\* The steps stream s has completed, when each added max(1, n) to its age.
StepsDone(s, n) == (IF pc[s] = "for" THEN old_age[s] ELSE age[s]) \div Max(1, n)

\* Stream s has completed at least one step.
HasStepped(s) == IF pc[s] = "for" THEN old_age[s] > 0 ELSE age[s] > 0

\* q lies on the line through p along v, up to the rounding of n additions.
OnLine(q, p, v, n) ==
    /\ IsNum(q.x) /\ IsNum(q.y)
    /\ AbsInt((q.x.v - p.x.v) * v.y.v - (q.y.v - p.y.v) * v.x.v)
           <= n * (AbsInt(v.x.v) + AbsInt(v.y.v))

\* C5 as stated: with no forces every stream keeps its initial velocity.
C5_Original ==
    forces = << >> => \A s \in Streams : stream[s].velocity = streams[s].velocity

\* C5 amended: with no forces, a stream whose initial speed does not exceed
\* velocity_cap keeps its velocity, is at initial_position + k * velocity
\* after k steps and makes its sub-steps on that line; a faster stream makes
\* its first step with the initial velocity and is then rescaled to the cap:
\* its direction and its line are kept (up to rounding), its speed is not.
C5_StraightLine ==
    forces = << >> =>
        \A s \in Streams :
            LET v0 == streams[s].velocity
                p0 == streams[s].position
                k == StepsDone(s, FToInt(FMax(FAbs(v0.x), FAbs(v0.y))))
            IN IF ~FGt(Length(v0), FromInt(velocity_cap))
               THEN /\ stream[s].velocity = v0
                    /\ stream[s].position =
                           Position(Fin(p0.x.v + k * v0.x.v), Fin(p0.y.v + k * v0.y.v))
                    /\ i[s] > 1 => OnLine(current_position[s], p0, v0, i[s] - 1)
               ELSE /\ ~HasStepped(s) =>
                           stream[s].velocity = v0 /\ stream[s].position = p0
                    /\ HasStepped(s) =>
                           /\ stream[s].velocity # v0
                           /\ AtCap(stream[s].velocity, v0)
                           /\ SameDirection(stream[s].velocity, v0)
                    /\ OnLine(stream[s].position, p0, v0, age[s] + 1)
                    /\ i[s] > 1 => OnLine(current_position[s], p0, v0, age[s] + 1)

\* A stream within the cap has made two steps and painted, with no forces.
C5_Witness ==
    /\ forces = << >>
    /\ \E s \in Streams :
           /\ ~FGt(Length(streams[s].velocity), FromInt(velocity_cap))
           /\ pixel[s][1] # None /\ pixel[s][2] # None
           /\ stream[s].position # streams[s].position
           /\ StepsDone(s, FToInt(FMax(FAbs(streams[s].velocity.x),
                                       FAbs(streams[s].velocity.y)))) >= 2

\* A stream that never moves: zero velocity and no forces.
Stationary(s) ==
    /\ forces = << >>
    /\ streams[s].velocity = Position(Fin(0), Fin(0))
    /\ InBounds(streams[s].position)

\* C6 as stated: a stationary stream ends with age ceil(10 / decay_rate).
C6_Original ==
    \A s \in Streams :
        (Stationary(s) /\ pc[s] = "done") => age[s] = CeilRatio(streams[s])

\* C6 amended: a stationary stream that starts within the outer bounds ends
\* with age (10 / decay_rate) as u64, the quotient truncated, and its age
\* grows by exactly 1 per step until then.
C6_TruncatedIncrements ==
    \A s \in Streams :
        Stationary(s) =>
            LET m == FToInt(FDiv(FromInt(max_decay_factor), streams[s].decay_rate))
            IN /\ age[s] <= m
               /\ pc[s] = "done" => age[s] = m
               /\ pc[s] = "for" => age[s] = old_age[s] /\ num_pixels[s] = 0

\* A stationary stream has ended below ceil(10 / decay_rate), after some steps.
C6_Witness ==
    \E s \in Streams :
        /\ Stationary(s)
        /\ pc[s] = "done"
        /\ age[s] > 0
        /\ age[s] < CeilRatio(streams[s])

\* The coordinate is a number strictly between 0 and size.
InOpen(f) == IsNum(f) /\ 0 < f.v /\ f.v < size * U

\* The coordinate is a number in [0, size).
InHalfOpen(f) == IsNum(f) /\ 0 <= f.v /\ f.v < size * U

\* Both axes of the pixel pair hold an index.
Addressed(px) == px[1] # None /\ px[2] # None

\* C7 as stated: the last sub-step of a stream addressed a cell exactly when
\* both coordinates of its position lie in [0, size), and the cell is then
\* (floor(x), floor(y)).
C7_Original ==
    \A s \in Streams :
        i[s] > 1 =>
            LET p == current_position[s]
            IN /\ Addressed(pixel[s]) <=> (InHalfOpen(p.x) /\ InHalfOpen(p.y))
               /\ Addressed(pixel[s]) =>
                      pixel[s] = <<Some(p.x.v \div U), Some(p.y.v \div U)>>

\* C7 amended: a sub-step addresses a cell exactly when both coordinates lie
\* strictly between 0 and size (a coordinate of exactly 0 addresses nothing);
\* the cell is then (floor(x), floor(y)), within 0..size-1, and every cell
\* ever addressed is a cell of the grid.
C7_OpenInterval ==
    /\ DOMAIN grid = Cells
    /\ landed \subseteq Cells
    /\ \A s \in Streams :
        i[s] > 1 =>
            LET p == current_position[s]
            IN /\ Addressed(pixel[s]) <=> (InOpen(p.x) /\ InOpen(p.y))
               /\ Addressed(pixel[s]) =>
                      /\ pixel[s] = <<Some(p.x.v \div U), Some(p.y.v \div U)>>
                      /\ pixel[s][1] \X pixel[s][2] \subseteq landed
                      /\ p.x.v \div U \in 0 .. size - 1
                      /\ p.y.v \div U \in 0 .. size - 1

\* A sub-step at x = 0 exactly, with y inside the grid, addressed no cell;
\* and some other sub-step did address one.
C7_Witness ==
    /\ \E s \in Streams :
           /\ i[s] > 1
           /\ current_position[s].x = Fin(0)
           /\ InOpen(current_position[s].y)
           /\ ~Addressed(pixel[s])
           /\ landed # {}

\* C8: the grid changes only in a sub-step, in the one cell that holds the
\* sub-step position, from v to v + colour * exp(-decay_rate * age) of the
\* stream that makes it, every other cell unchanged; a cell no sub-step has
\* landed in is exactly zero.
C8_AddOnly ==
    /\ [][\A c \in Cells :
            grid'[c] # grid[c] =>
                \E s \in Streams :
                    LET p == current_position'[s]
                        e == FExp(FMul(FNeg(stream[s].decay_rate), FromInt(age[s])))
                    IN /\ pc[s] = "for" /\ i'[s] = i[s] + 1 /\ age'[s] = age[s] + 1
                       /\ c = <<p.x.v \div U, p.y.v \div U>>
                       /\ InOpen(p.x) /\ InOpen(p.y)
                       /\ grid'[c] = ColorOffset(FAdd(grid[c].r, FMul(stream[s].color.r, e)),
                                                 FAdd(grid[c].g, FMul(stream[s].color.g, e)),
                                                 FAdd(grid[c].b, FMul(stream[s].color.b, e)))
                       /\ \A d \in Cells \ {c} : grid'[d] = grid[d]]_vars
    /\ [](\A c \in Cells \ landed : grid[c] = ZeroColor)

\* Two streams have run to the end, one cell holds contributions, and some
\* cell was never landed in.
C8_Witness ==
    /\ Len(streams) = 2
    /\ AllDone
    /\ age[1] > 1 /\ age[2] > 1
    /\ \E c \in landed : grid[c] # ZeroColor
    /\ landed # Cells

\* C10: a step starts only from a position within the outer bounds and an
\* age below max_age, and a stream that is done never changes again.
C10_Claim ==
    [][\A s \in Streams :
        /\ (pc[s] = "while" /\ pc'[s] = "for") =>
               InBounds(stream[s].position) /\ age[s] < MaxAge(streams[s])
        /\ pc[s] = "done" =>
               stream'[s] = stream[s] /\ age'[s] = age[s] /\ pc'[s] = "done"]_vars

\* ----------------------------------------------- streams in any order

\* The first stream of a pair: from (5, 5), every velocity and colour.
PairFirst ==
    { st \in StreamChoices :
        /\ st.position = Position(FromInt(5), FromInt(5))
        /\ st.decay_rate = Half(5) }

\* Pairs of streams; several cross the same cells.
StreamPairs == { <<first, second>> : first \in PairFirst, second \in LaterChoices }

\* The stream loop with the steps of different streams interleaved freely.
ParInit == InitWith({ << >>, <<LinearForce>>, <<InwardForce>> }, StreamPairs, "interleaved")

ParSpec == ParInit /\ [][Next]_vars

\* The grid after the sub-steps j .. n of one step (lines 278-287).
RECURSIVE PaintSteps(_, _, _, _, _, _)
PaintSteps(g, st, a, offset, j, n) ==
    IF j > n THEN g
    ELSE PaintSteps(Paint(g, st, a, SubStepPosition(st.position, offset, j)),
                    st, a + 1, offset, j + 1, n)

\* One stream run to its end on grid g (the while loop, lines 266-305).
RECURSIVE RunStream(_, _, _, _)
RunStream(g, st, a, fs) ==
    IF ~WhileCond(st, a) THEN [grid |-> g, stream |-> st, age |-> a]
    ELSE LET n == NumPixels(st.velocity)
         IN RunStream(PaintSteps(g, st, a, BaseOffset(st.velocity), 1, n),
                      Updated(st, fs), MinAge(a + n, a), fs)

\* The streams s .. Len(sts) run one after another (line 264).
RECURSIVE DrawFrom(_, _, _, _)
DrawFrom(g, sts, s, fs) ==
    IF s > Len(sts) THEN g
    ELSE DrawFrom(RunStream(g, sts[s], 0, fs).grid, sts, s + 1, fs)

\* C9: a step of one stream is computed from that stream and the forces and
\* leaves every other stream as it was; so when all streams are done, however
\* their steps were interleaved, the grid is the one drawn by running the
\* streams one after another, and each stream ends as it does run alone.
C9_OrderIndependent ==
    /\ [](AllDone =>
            /\ grid = DrawFrom([c \in Cells |-> ZeroColor], streams, 1, forces)
            /\ \A s \in Streams :
                   LET alone == RunStream([c \in Cells |-> ZeroColor], streams[s], 0, forces)
                   IN stream[s] = alone.stream /\ age[s] = alone.age)
    /\ [][\A s \in Streams :
            (stream'[s] # stream[s] \/ age'[s] # age[s] \/ pc'[s] # pc[s]) =>
                /\ \A t \in Streams \ {s} :
                       stream'[t] = stream[t] /\ age'[t] = age[t] /\ pc'[t] = pc[t]
                /\ stream'[s] \in {stream[s], Updated(stream[s], forces)}]_vars

\* Both streams are in the middle of a step, each after earlier steps, and a
\* cell has been painted: the steps are interleaved.
C9_Witness ==
    /\ order = "interleaved"
    /\ Len(streams) = 2
    /\ pc[1] = "for" /\ old_age[1] > 0 /\ i[1] > 1
    /\ pc[2] = "for" /\ old_age[2] > 0 /\ i[2] > 1
    /\ landed # {}

====
